---- MODULE Spec2Model ----
(***************************************************************************)
(* Dispatch and aggregation core of vade: a Vade instance holds registries *)
(* of handlers and delegates every call to them through the combinators    *)
(* futures::future::try_join_all and futures::future::select_ok.           *)
(*                                                                         *)
(* A dispatch is modelled at the granularity of the combinator polling one *)
(* handler future: handler futures are lazy (nothing of a handler runs     *)
(* before its future is polled), the combinator polls them in index order, *)
(* and a poll of a handler future is either Pending or Ready(outcome).     *)
(* Strings built with format! are sequences of their pieces; an            *)
(* Option<String> is <<>> (None) or a non-empty sequence (Some).           *)
(***************************************************************************)
EXTENDS Integers, Sequences, FiniteSets, TLC

VARIABLES
    plugins,                \* Vade.plugins: Vec<Box<dyn VadePlugin>>
    did_resolvers,          \* Vade.did_resolvers: Vec<Box<dyn DidResolver>>
    vc_resolvers,           \* Vade.vc_resolvers: Vec<Box<dyn VcResolver>>
    message_consumers,      \* Vade.message_consumers: Vec<Box<dyn MessageConsumer>>
    message_subscriptions,  \* Vade.message_subscriptions: Vec<Vec<String>>
    matching,               \* per consumer: sends so far whose type it subscribed to
    call,                   \* the dispatch in progress or last returned
    futures,                \* the handler futures handed to the combinator
    cursor,                 \* index of the future the combinator polls next
    completed,              \* indices of futures, in the order they completed
    result,                 \* what the last finished dispatch returned
    prev,                   \* the set_* that returned Ok right before this dispatch
    overlap                 \* a get_* in progress beside `call` (shared access)

vars == <<plugins, did_resolvers, vc_resolvers, message_consumers,
          message_subscriptions, matching, call, futures, cursor, completed,
          result, prev, overlap>>

registries == <<plugins, did_resolvers, vc_resolvers, message_consumers,
                message_subscriptions>>

-----------------------------------------------------------------------------
(* Bounds of the model *)

MaxPlugins == 3

\* did resolvers and vc resolvers of one Vade, together
MaxResolvers == 3

MaxConsumers == 2

\* handlers of one Vade over all its registries, where all registries are used
MaxHandlers == 2

\* sends of a type a consumer subscribed to, per consumer
MaxCount == 3

-----------------------------------------------------------------------------
(* Values *)

None == <<>>

Some(s) == <<s>>

\* tests/vade_plugin.rs: the document TestPlugin::did_create returns
EXAMPLE_DID_DOCUMENT_STR == "did:example:123456789abcdefghi"

\* VadePluginResultValue<Option<String>> and the Box<dyn Error> of a plugin call
NotImplemented == [tag |-> "NotImplemented", val |-> None]

Ignored == [tag |-> "Ignored", val |-> None]

Success(v) == [tag |-> "Success", val |-> v]

Err(e) == [tag |-> "Err", val |-> e]

Ok(v) == [tag |-> "Ok", val |-> v]

NoOutcome == [tag |-> "None", val |-> None]

\* a handler future: the handler it borrows, how far it got, what it returned
NewFuture(h) == [h |-> h, st |-> "unstarted", out |-> NoOutcome]

Idle == [op |-> "none", target |-> "", value |-> "", pc |-> "idle"]

NoResult == [tag |-> "None", list |-> <<>>, err |-> <<>>]

NoPrevious == [op |-> "none", target |-> "", value |-> "", tag |-> "None"]

NoOverlap == [op |-> "none", target |-> "", pc |-> "idle", futures |-> <<>>,
              cursor |-> 1, result |-> NoResult]

-----------------------------------------------------------------------------
(* Helpers *)

Min(S) == CHOOSE x \in S : \A y \in S : x <= y

Indices(s) == 1..Len(s)

\* the futures the combinator still holds and polls
Remaining(fs) == {i \in Indices(fs) : fs[i].st \in {"unstarted", "pending"}}

DropKeepsFutures(fs) == fs

\* the futures a combinator still holds when it returns are dropped with it:
\* one never polled has run nothing, one that was pending stops where it is
Drop(fs) ==
    [i \in Indices(fs) |->
       IF i \in Remaining(fs)
       THEN [fs[i] EXCEPT !.st = IF @ = "unstarted" THEN "dropped unstarted"
                                 ELSE "dropped pending"]
       ELSE fs[i]]

-----------------------------------------------------------------------------
(* futures::future::try_join_all, as awaited by the dispatches below.       *)
(* One poll walks the elements in index order; elements already done are    *)
(* not polled again; the first Err met ends the walk and the join; the join *)
(* is Ready(Ok(outputs in index order)) when a walk leaves nothing pending. *)
(* TryJoinAll(fs, c) is the state of the join after element c was polled    *)
(* and fs[c] holds what that poll gave.                                     *)

\* (mutant) the outputs in the order the futures completed
OutputsInCompletionOrder(fs) ==
    [j \in Indices(completed') |-> fs[completed'[j]].out]

Outputs(fs) == [i \in Indices(fs) |-> fs[i].out]

\* (mutant) a join that waits for all and lets the errors through as outputs
TryJoinAllNoFailFast(fs, c) ==
    IF \E i \in Remaining(fs) : i > c
    THEN [ready |-> FALSE, out |-> NoOutcome,
          cursor |-> Min({i \in Remaining(fs) : i > c})]
    ELSE IF Remaining(fs) = {}
    THEN [ready |-> TRUE, out |-> Ok(Outputs(fs)), cursor |-> c]
    ELSE [ready |-> FALSE, out |-> NoOutcome, cursor |-> Min(Remaining(fs))]

Max(S) == CHOOSE x \in S : \A y \in S : y <= x

TryJoinAllFromTheBack(fs, c) ==
    IF fs[c].out.tag = "Err"
    THEN [ready |-> TRUE, out |-> Err(fs[c].out.val), cursor |-> c]
    ELSE IF Remaining(fs) = {}
    THEN [ready |-> TRUE, out |-> Ok(Outputs(fs)), cursor |-> c]
    ELSE [ready |-> FALSE, out |-> NoOutcome, cursor |-> Max(Remaining(fs))]

TryJoinAllIgnoresPending(fs, c) ==
    IF fs[c].out.tag = "Err"
    THEN [ready |-> TRUE, out |-> Err(fs[c].out.val), cursor |-> c]
    ELSE IF \E i \in Remaining(fs) : i > c
    THEN [ready |-> FALSE, out |-> NoOutcome,
          cursor |-> Min({i \in Remaining(fs) : i > c})]
    ELSE [ready |-> TRUE, out |-> Ok(Outputs(fs)), cursor |-> c]

\* (mutant) a join that polls every future once before it reports an error
TryJoinAllStartsAll(fs, c) ==
    LET errs == {i \in Indices(fs) : fs[i].out.tag = "Err"}
        unstarted == {i \in Indices(fs) : fs[i].st = "unstarted"}
    IN IF unstarted # {}
       THEN [ready |-> FALSE, out |-> NoOutcome, cursor |-> Min(unstarted)]
       ELSE IF errs # {}
       THEN [ready |-> TRUE, out |-> Err(fs[Min(errs)].out.val), cursor |-> c]
       ELSE IF \E i \in Remaining(fs) : i > c
       THEN [ready |-> FALSE, out |-> NoOutcome,
             cursor |-> Min({i \in Remaining(fs) : i > c})]
       ELSE IF Remaining(fs) = {}
       THEN [ready |-> TRUE, out |-> Ok(Outputs(fs)), cursor |-> c]
       ELSE [ready |-> FALSE, out |-> NoOutcome, cursor |-> Min(Remaining(fs))]

\* (mutant) a join that reports an error only when no future is pending
TryJoinAllWaitsForPending(fs, c) ==
    LET errs == {i \in Indices(fs) : fs[i].out.tag = "Err"}
        pend == {i \in Indices(fs) : fs[i].st = "pending"}
    IN IF errs # {}
       THEN IF pend # {}
            THEN [ready |-> FALSE, out |-> NoOutcome, cursor |-> Min(pend)]
            ELSE [ready |-> TRUE, out |-> Err(fs[Min(errs)].out.val),
                  cursor |-> c]
       ELSE IF \E i \in Remaining(fs) : i > c
       THEN [ready |-> FALSE, out |-> NoOutcome,
             cursor |-> Min({i \in Remaining(fs) : i > c})]
       ELSE IF Remaining(fs) = {}
       THEN [ready |-> TRUE, out |-> Ok(Outputs(fs)), cursor |-> c]
       ELSE [ready |-> FALSE, out |-> NoOutcome, cursor |-> Min(Remaining(fs))]

TryJoinAll(fs, c) ==
    IF fs[c].out.tag = "Err"
    THEN [ready |-> TRUE, out |-> Err(fs[c].out.val), cursor |-> c]
    ELSE IF \E i \in Remaining(fs) : i > c
    THEN [ready |-> FALSE, out |-> NoOutcome,
          cursor |-> Min({i \in Remaining(fs) : i > c})]
    ELSE IF Remaining(fs) = {}
    THEN [ready |-> TRUE, out |-> Ok(Outputs(fs)), cursor |-> c]
    ELSE [ready |-> FALSE, out |-> NoOutcome, cursor |-> Min(Remaining(fs))]

\* the join of no futures at all is ready with no outputs
TryJoinAllEmpty == [ready |-> TRUE, out |-> Ok(<<>>), cursor |-> 1]

-----------------------------------------------------------------------------
(* Plugins (vade_plugin.rs) and the collect-all dispatches (vade.rs) *)

\* the functions of Vade that delegate to plugins, with the text of their error
VadeFunctions ==
    [did_create |-> "could not create did for method",
     did_resolve |-> "could not resolve did",
     did_update |-> "could not update did",
     vc_zkp_create_credential_definition |->
         "could not create credential definition for method",
     vc_zkp_create_credential_offer |->
         "could not create credential offer for method",
     vc_zkp_create_credential_proposal |->
         "could not create credential proposal for method",
     vc_zkp_create_credential_schema |->
         "could not create credential schema for method",
     vc_zkp_create_revocation_registry_definition |->
         "could not create revocation registry definition for method",
     vc_zkp_update_revocation_registry |->
         "could not update revocation registry for method",
     vc_zkp_issue_credential |-> "could not issue credential for method",
     vc_zkp_present_proof |-> "could not present proof for method",
     vc_zkp_request_credential |-> "could not request credential for method",
     vc_zkp_request_proof |-> "could not request proof for method",
     vc_zkp_revoke_credential |-> "could not revoke credential for method",
     vc_zkp_verify_proof |-> "could not verify proof for method"]

\* the did methods / dids given as first argument
Targets == {"did:example", "did:example:123"}

\* what a plugin other than TestPlugin may hand back as artifact
Artifacts == {None, Some("artifact")}

\* a poll of a handler future that completes with outcome o
Ready(o) == [st |-> "done", out |-> o]

Pending == [st |-> "pending", out |-> NoOutcome]

\* the functions of the VadePlugin trait
VadePluginFunctions ==
    {"did_create", "did_resolve", "did_update", "run_custom_function",
     "vc_zkp_create_credential_definition", "vc_zkp_create_credential_offer",
     "vc_zkp_create_credential_proposal", "vc_zkp_create_credential_schema",
     "vc_zkp_create_revocation_registry_definition",
     "vc_zkp_update_revocation_registry", "vc_zkp_issue_credential",
     "vc_zkp_present_proof", "vc_zkp_request_credential",
     "vc_zkp_request_proof", "vc_zkp_revoke_credential", "vc_zkp_verify_proof"}

\* (mutant) a trait whose default bodies ignore the request
VadePluginDefaultIgnores(op) == Ignored

\* the body the VadePlugin trait gives each of its functions
VadePlugin(op) == NotImplemented

\* TestPlugin of tests/vade_plugin.rs; every function it does not override is
\* the default of the VadePlugin trait
TestPlugin(op) ==
    CASE op = "did_create" -> Success(Some(EXAMPLE_DID_DOCUMENT_STR))
      [] op = "did_resolve" -> Ignored
      [] op = "did_update" -> Err(<<"yikes">>)
      [] OTHER -> VadePlugin(op)

\* any other implementer of the trait: each function is an async fn returning
\* Result<VadePluginResultValue<Option<String>>, Box<dyn Error>>
AnyPlugin ==
    {Pending} \cup
    {Ready(o) : o \in {NotImplemented, Ignored, Err(<<"plugin error">>)}
                      \cup {Success(a) : a \in Artifacts}}

PluginKinds == {"TestPlugin", "AnyPlugin"}

PollPlugin(kind, op) ==
    IF kind = "TestPlugin" THEN {Ready(TestPlugin(op))} ELSE AnyPlugin

\* (mutant) a filter that pushes only the values that hold an artifact
RECURSIVE FilterResultsSkipsNone(_)
FilterResultsSkipsNone(responses) ==
    IF responses = <<>> THEN <<>>
    ELSE IF Head(responses).tag = "Success" /\ Head(responses).val # None
         THEN <<Head(responses).val>> \o FilterResultsSkipsNone(Tail(responses))
         ELSE FilterResultsSkipsNone(Tail(responses))

\* (mutant) a filter that keeps the value of a plugin that ignored the request
RECURSIVE FilterResultsKeepsIgnored(_)
FilterResultsKeepsIgnored(responses) ==
    IF responses = <<>> THEN <<>>
    ELSE IF Head(responses).tag \in {"Success", "Ignored"}
         THEN <<Head(responses).val>> \o FilterResultsKeepsIgnored(Tail(responses))
         ELSE FilterResultsKeepsIgnored(Tail(responses))

\* for response in responses { if let Success(value) = response { push } }
RECURSIVE FilterResults(_)
FilterResults(responses) ==
    IF responses = <<>> THEN <<>>
    ELSE IF Head(responses).tag = "Success"
         THEN <<Head(responses).val>> \o FilterResults(Tail(responses))
         ELSE FilterResults(Tail(responses))

\* (mutant) every function reports its error with the text of did_create
DelegateResultNamesDidCreate(op, target, joined) ==
    IF joined.tag = "Ok"
    THEN [tag |-> "Ok", list |-> FilterResults(joined.val), err |-> <<>>]
    ELSE [tag |-> "Err", list |-> <<>>,
          err |-> <<VadeFunctions["did_create"], target>> \o joined.val]

\* (mutant) a dispatch that no plugin answered is reported as an error
DelegateResultEmptyIsError(op, target, joined) ==
    IF joined.tag = "Ok" /\ FilterResults(joined.val) # <<>>
    THEN [tag |-> "Ok", list |-> FilterResults(joined.val), err |-> <<>>]
    ELSE [tag |-> "Err", list |-> <<>>,
          err |-> <<VadeFunctions[op], target>> \o
                  (IF joined.tag = "Ok" THEN <<>> ELSE joined.val)]

\* match try_join_all(futures).await { Ok(responses) => .., Err(e) => .. }
DelegateResult(op, target, joined) ==
    IF joined.tag = "Ok"
    THEN [tag |-> "Ok", list |-> FilterResults(joined.val), err |-> <<>>]
    ELSE [tag |-> "Err", list |-> <<>>,
          err |-> <<VadeFunctions[op], target>> \o joined.val]

\* Vade::new
Init ==
    /\ plugins = <<>>
    /\ did_resolvers = <<>>
    /\ vc_resolvers = <<>>
    /\ message_consumers = <<>>
    /\ message_subscriptions = <<>>
    /\ matching = <<>>
    /\ call = Idle
    /\ futures = <<>>
    /\ cursor = 1
    /\ completed = <<>>
    /\ result = NoResult
    /\ prev = NoPrevious
    /\ overlap = NoOverlap

ExclusiveOfItsKind == call.pc # "polling"

\* a function that takes &mut self starts only when no dispatch is in progress
\* on this Vade
Exclusive == call.pc # "polling" /\ overlap.pc # "polling"

\* call, futures, cursor, completed, result and prev are the record of one
\* dispatch, kept after it returned; a registration is not part of that
\* dispatch and the record ends with it
Forget ==
    /\ call' = Idle
    /\ futures' = <<>>
    /\ cursor' = 1
    /\ completed' = <<>>
    /\ result' = NoResult
    /\ prev' = NoPrevious
    /\ overlap' = NoOverlap

register_plugin_once(kind) ==
    /\ Exclusive
    /\ Len(plugins) < MaxPlugins
    /\ plugins' = IF \E i \in Indices(plugins) : plugins[i] = kind
                  THEN plugins ELSE Append(plugins, kind)
    /\ Forget
    /\ UNCHANGED <<did_resolvers, vc_resolvers, message_consumers,
                   message_subscriptions, matching>>

register_plugin(kind) ==
    /\ Exclusive
    /\ Len(plugins) < MaxPlugins
    /\ plugins' = Append(plugins, kind)
    /\ Forget
    /\ UNCHANGED <<did_resolvers, vc_resolvers, message_consumers,
                   message_subscriptions, matching>>

\* the head of every delegating function: one future per plugin, in registry
\* order, none of them polled yet
Delegate(op, target) ==
    /\ Exclusive
    /\ call' = [op |-> op, target |-> target, value |-> "", pc |-> "polling"]
    /\ futures' = [i \in Indices(plugins) |-> NewFuture(i)]
    /\ cursor' = 1
    /\ completed' = <<>>
    /\ result' = NoResult
    /\ UNCHANGED <<registries, matching, prev, overlap>>

did_create(did_method) == Delegate("did_create", did_method)

did_resolve(did) == Delegate("did_resolve", did)

did_update(did) == Delegate("did_update", did)

vc_zkp_create_credential_definition(method) ==
    Delegate("vc_zkp_create_credential_definition", method)

vc_zkp_create_credential_offer(method) ==
    Delegate("vc_zkp_create_credential_offer", method)

vc_zkp_create_credential_proposal(method) ==
    Delegate("vc_zkp_create_credential_proposal", method)

vc_zkp_create_credential_schema(method) ==
    Delegate("vc_zkp_create_credential_schema", method)

vc_zkp_create_revocation_registry_definition(method) ==
    Delegate("vc_zkp_create_revocation_registry_definition", method)

vc_zkp_update_revocation_registry(method) ==
    Delegate("vc_zkp_update_revocation_registry", method)

vc_zkp_issue_credential(method) == Delegate("vc_zkp_issue_credential", method)

vc_zkp_present_proof(method) == Delegate("vc_zkp_present_proof", method)

vc_zkp_request_credential(method) ==
    Delegate("vc_zkp_request_credential", method)

vc_zkp_request_proof(method) == Delegate("vc_zkp_request_proof", method)

vc_zkp_revoke_credential(method) == Delegate("vc_zkp_revoke_credential", method)

vc_zkp_verify_proof(method) == Delegate("vc_zkp_verify_proof", method)

\* the futures after the poll of the one at the cursor gave r
Polled(r) ==
    [futures EXCEPT ![cursor] = [h |-> @.h, st |-> r.st, out |-> r.out]]

\* the dispatch leaves the combinator: the function returns
Return(res) ==
    /\ call' = [call EXCEPT !.pc = "returned"]
    /\ result' = res

\* try_join_all(futures).await of a delegating function: the join polls the
\* future at the cursor, or is ready at once when there is no plugin
AwaitPlugins ==
    /\ call.pc = "polling"
    /\ call.op \in DOMAIN VadeFunctions
    /\ IF futures = <<>>
       THEN /\ Return(DelegateResult(call.op, call.target, TryJoinAllEmpty.out))
            /\ UNCHANGED <<futures, cursor, completed>>
       ELSE \E r \in PollPlugin(plugins[futures[cursor].h], call.op) :
              LET fs == Polled(r)
                  join == TryJoinAll(fs, cursor)
              IN /\ completed' = IF r.st = "done" THEN Append(completed, cursor)
                                 ELSE completed
                 /\ futures' = IF join.ready THEN Drop(fs) ELSE fs
                 /\ IF join.ready
                    THEN /\ Return(DelegateResult(call.op, call.target, join.out))
                         /\ cursor' = cursor
                    ELSE /\ cursor' = join.cursor
                         /\ UNCHANGED <<call, result>>
    /\ UNCHANGED <<registries, matching, prev, overlap>>

Next ==
    \/ \E kind \in PluginKinds : register_plugin(kind)
    \/ \E did_method \in Targets : did_create(did_method)
    \/ \E did \in Targets : did_resolve(did)
    \/ \E did \in Targets : did_update(did)
    \/ \E method \in Targets : vc_zkp_create_credential_definition(method)
    \/ \E method \in Targets : vc_zkp_create_credential_offer(method)
    \/ \E method \in Targets : vc_zkp_create_credential_proposal(method)
    \/ \E method \in Targets : vc_zkp_create_credential_schema(method)
    \/ \E method \in Targets : vc_zkp_create_revocation_registry_definition(method)
    \/ \E method \in Targets : vc_zkp_update_revocation_registry(method)
    \/ \E method \in Targets : vc_zkp_issue_credential(method)
    \/ \E method \in Targets : vc_zkp_present_proof(method)
    \/ \E method \in Targets : vc_zkp_request_credential(method)
    \/ \E method \in Targets : vc_zkp_request_proof(method)
    \/ \E method \in Targets : vc_zkp_revoke_credential(method)
    \/ \E method \in Targets : vc_zkp_verify_proof(method)
    \/ AwaitPlugins

Spec == Init /\ [][Next]_vars

-----------------------------------------------------------------------------
(* A plugin called directly, as in tests/vade_plugin.rs, and the unwrap of  *)
(* the VadePluginResultValue it answers with                                *)

\* (mutant) an unwrap that gives the empty value for Ignored
unwrap_or_none(self) ==
    CASE self.tag = "Success" -> [tag |-> "Ok", list |-> <<self.val>>, err |-> <<>>]
      [] self.tag = "NotImplemented" ->
           [tag |-> "Panic", list |-> <<>>,
            err |-> <<"called VadePluginResultValue::unwrap() on a NotImplemented value">>]
      [] self.tag = "Ignored" -> [tag |-> "Ok", list |-> <<None>>, err |-> <<>>]

\* VadePluginResultValue::unwrap: the value it returns, or the panic (its
\* message without the quotation marks around the names)
unwrap(self) ==
    CASE self.tag = "Success" -> [tag |-> "Ok", list |-> <<self.val>>, err |-> <<>>]
      [] self.tag = "NotImplemented" ->
           [tag |-> "Panic", list |-> <<>>,
            err |-> <<"called VadePluginResultValue::unwrap() on a NotImplemented value">>]
      [] self.tag = "Ignored" ->
           [tag |-> "Panic", list |-> <<>>,
            err |-> <<"called VadePluginResultValue::unwrap() on a Ignored value">>]

\* let mut tp = ..; tp.function(arg, ..): the future of one call on a plugin
call_plugin(kind, function, arg) ==
    /\ call.pc # "polling"
    /\ plugins' = <<kind>>
    /\ call' = [op |-> function, target |-> arg, value |-> "", pc |-> "polling"]
    /\ futures' = <<NewFuture(1)>>
    /\ cursor' = 1
    /\ completed' = <<>>
    /\ result' = NoResult
    /\ UNCHANGED <<did_resolvers, vc_resolvers, message_consumers,
                   message_subscriptions, matching, prev, overlap>>

\* .await of that future: Ok(response) or Err(e) once the plugin is done
await_plugin ==
    /\ call.pc = "polling"
    /\ \E r \in PollPlugin(plugins[futures[cursor].h], call.op) :
         /\ completed' = IF r.st = "done" THEN Append(completed, cursor)
                          ELSE completed
         /\ futures' = Polled(r)
         /\ call' = IF r.st = "done" THEN [call EXCEPT !.pc = "returned"]
                     ELSE call
    /\ UNCHANGED <<registries, matching, cursor, result, prev, overlap>>

\* Ok(response) => response.unwrap()
unwrap_response ==
    /\ call.pc = "returned"
    /\ futures[1].out.tag # "Err"
    /\ call' = [call EXCEPT !.pc = "unwrapped"]
    /\ result' = unwrap(futures[1].out)
    /\ UNCHANGED <<registries, matching, futures, cursor, completed, prev,
                   overlap>>

NextPlugin ==
    \/ \E kind \in PluginKinds, f \in VadePluginFunctions, arg \in Targets :
          call_plugin(kind, f, arg)
    \/ await_plugin
    \/ unwrap_response

SpecPlugin == Init /\ [][NextPlugin]_vars

-----------------------------------------------------------------------------
(* futures::future::select_ok, as awaited by the get_* and check_* functions.*)
(* A poll looks, in index order, for the first future that is ready; an Ok  *)
(* ends the selection with that value and the other futures are handed back *)
(* (and dropped by the caller); an Err removes the future and the search    *)
(* starts again from the front, the Err being the result when no future is  *)
(* left. SelectOk(fs, c) is the state after element c was polled.           *)

\* (mutant) a selection that gives up at the first Err, as try_join_all does
SelectOkFirstErrFails(fs, c) ==
    IF fs[c].out.tag \in {"Ok", "Err"}
    THEN [ready |-> TRUE, out |-> fs[c].out, cursor |-> c]
    ELSE IF \E i \in Remaining(fs) : i > c
    THEN [ready |-> FALSE, out |-> NoOutcome,
          cursor |-> Min({i \in Remaining(fs) : i > c})]
    ELSE [ready |-> FALSE, out |-> NoOutcome, cursor |-> Min(Remaining(fs))]

SelectOkLastWins(fs, c) ==
    LET oks == {i \in Indices(fs) : fs[i].out.tag = "Ok"}
    IN IF \E i \in Remaining(fs) : i > c /\ fs[i].st = "unstarted"
       THEN [ready |-> FALSE, out |-> NoOutcome,
             cursor |-> Min({i \in Remaining(fs) : i > c})]
       ELSE IF oks # {}
       THEN [ready |-> TRUE, out |-> Ok(fs[Max(oks)].out.val), cursor |-> c]
       ELSE IF Remaining(fs) = {}
       THEN [ready |-> TRUE, out |-> Err(fs[c].out.val), cursor |-> c]
       ELSE [ready |-> FALSE, out |-> NoOutcome, cursor |-> Min(Remaining(fs))]

\* (mutant) a selection that is ready only when no future is left
SelectOkWaitsForAll(fs, c) ==
    IF Remaining(fs) = {}
    THEN IF \E i \in Indices(fs) : fs[i].out.tag = "Ok"
         THEN [ready |-> TRUE,
               out |-> Ok(fs[Min({i \in Indices(fs) : fs[i].out.tag = "Ok"})].out.val),
               cursor |-> c]
         ELSE [ready |-> TRUE, out |-> Err(fs[c].out.val), cursor |-> c]
    ELSE IF \E i \in Remaining(fs) : i > c
    THEN [ready |-> FALSE, out |-> NoOutcome,
          cursor |-> Min({i \in Remaining(fs) : i > c})]
    ELSE [ready |-> FALSE, out |-> NoOutcome, cursor |-> Min(Remaining(fs))]

SelectOk(fs, c) ==
    IF fs[c].out.tag = "Ok"
    THEN [ready |-> TRUE, out |-> Ok(fs[c].out.val), cursor |-> c]
    ELSE IF fs[c].out.tag = "Err"
    THEN IF Remaining(fs) = {}
         THEN [ready |-> TRUE, out |-> Err(fs[c].out.val), cursor |-> c]
         ELSE [ready |-> FALSE, out |-> NoOutcome, cursor |-> Min(Remaining(fs))]
    ELSE IF \E i \in Remaining(fs) : i > c
    THEN [ready |-> FALSE, out |-> NoOutcome,
          cursor |-> Min({i \in Remaining(fs) : i > c})]
    ELSE [ready |-> FALSE, out |-> NoOutcome, cursor |-> Min(Remaining(fs))]

\* select_ok asserts that it is given at least one future
SelectOkEmpty == [tag |-> "Panic", val |-> <<"iterator provided to select_ok was empty">>]

-----------------------------------------------------------------------------
(* Resolvers (traits.rs, plugin/rust_storage_cache.rs) and their dispatches *)
(* (lib.rs)                                                                 *)

Keys == {"example_key"}

Values == {"example_value", "other_value"}

\* names given to check_did / check_vc
CheckNames == {"test", "unknown"}

\* RustStorageCache.storage: HashMap<String, String>
Storages == [Keys -> {None} \cup {Some(v) : v \in Values}]

RustStorageCache(storage) == [kind |-> "RustStorageCache", storage |-> storage]

\* any other implementer of DidResolver / VcResolver; it has no state here
AnyResolver == [kind |-> "AnyResolver", storage |-> [k \in Keys |-> None]]

\* what may be registered: a cache, fresh or already written to, or another
\* resolver
Resolvers == {RustStorageCache(st) : st \in Storages} \cup {AnyResolver}

\* RustStorageCache::get
get(self, key) ==
    IF key \in DOMAIN self.storage /\ self.storage[key] # None
    THEN Ok(self.storage[key])
    ELSE Err(<<"no entry for", key>>)

\* (mutant) a set that stores nothing
set_nothing(self, key, value) == self

\* (mutant) a set that stores the key in place of the value
set_key_as_value(self, key, value) ==
    [self EXCEPT !.storage = [k \in DOMAIN @ \cup {key} |->
                                 IF k = key THEN Some(key) ELSE @[k]]]

\* (mutant) a set that keeps the new entry only
set_forgets_others(self, key, value) ==
    [self EXCEPT !.storage = [k \in DOMAIN @ \cup {key} |->
                                 IF k = key THEN Some(value) ELSE None]]

\* RustStorageCache::set: the cache after the insert; it returns Ok(())
set(self, key, value) ==
    [self EXCEPT !.storage = [k \in DOMAIN @ \cup {key} |->
                                 IF k = key THEN Some(value) ELSE @[k]]]

\* (mutant) a check that accepts every name
check_accepts_all(self, what, name, value) == Ok(None)

\* RustStorageCache::check_did / check_vc
check(self, what, name, value) ==
    IF name = "test" THEN Ok(None)
    ELSE Err(<<IF what = "did" THEN "not responsible for this did"
               ELSE "not responsible for this vc">>)

ResolverFunctions ==
    [check_did |-> [reg |-> "did", fn |-> "check"],
     check_vc |-> [reg |-> "vc", fn |-> "check"],
     get_did_document |-> [reg |-> "did", fn |-> "get"],
     get_vc_document |-> [reg |-> "vc", fn |-> "get"],
     set_did_document |-> [reg |-> "did", fn |-> "set"],
     set_vc_document |-> [reg |-> "vc", fn |-> "set"]]

Resolving == call.op \in DOMAIN ResolverFunctions

\* (mutant) one registry that DID and VC functions share
RegistrySharedByBoth(reg) == did_resolvers

Registry(reg) == IF reg = "did" THEN did_resolvers ELSE vc_resolvers

\* one poll of the future of a resolver call: the poll result and the resolver
\* after it. The async fns of RustStorageCache await nothing that can be
\* pending, so their futures complete when first polled.
PollResolver(self, reg, fn, name, value) ==
    IF self.kind = "RustStorageCache"
    THEN CASE fn = "get" -> {[st |-> "done", out |-> get(self, name), h |-> self]}
           [] fn = "set" -> {[st |-> "done", out |-> Ok(None),
                              h |-> set(self, name, value)]}
           [] fn = "check" -> {[st |-> "done", out |-> check(self, reg, name, value),
                                h |-> self]}
    ELSE {[st |-> "pending", out |-> NoOutcome, h |-> self],
          [st |-> "done", out |-> Err(<<"resolver error">>), h |-> self]}
         \cup {[st |-> "done", out |-> Ok(v), h |-> self] :
                 v \in IF fn = "get" THEN {Some(x) : x \in Values} ELSE {None}}

\* match select_ok(futures).await of get_did_document / get_vc_document
GetResult(reg, selected) ==
    IF selected.tag = "Ok"
    THEN [tag |-> "Ok", list |-> selected.val, err |-> <<>>]
    ELSE [tag |-> "Err", list |-> <<>>,
          err |-> <<IF reg = "did" THEN "could not get did document"
                    ELSE "could not get vc document">>]

\* match select_ok(futures).await of check_did / check_vc
CheckResult(reg, selected) ==
    IF selected.tag = "Ok"
    THEN [tag |-> "Ok", list |-> <<>>, err |-> <<>>]
    ELSE [tag |-> "Err", list |-> <<>>,
          err |-> IF reg = "did" THEN <<"did document not valid">>
                  ELSE <<"vc document not valid">> \o selected.val]

\* (mutant) a set_* that swallows the error of its resolvers
SetResultSwallowsErr(reg, joined) == [tag |-> "Ok", list |-> <<>>, err |-> <<>>]

\* match try_join_all(futures).await of set_did_document / set_vc_document
SetResult(reg, joined) ==
    IF joined.tag = "Ok"
    THEN [tag |-> "Ok", list |-> <<>>, err |-> <<>>]
    ELSE [tag |-> "Err", list |-> <<>>,
          err |-> <<IF reg = "did" THEN "could not set did document"
                    ELSE "could not set vc document">>]

Panicked(selected) == [tag |-> "Panic", list |-> <<>>, err |-> selected.val]

register_did_resolver(did_resolver) ==
    /\ Exclusive
    /\ Len(did_resolvers) + Len(vc_resolvers) < MaxResolvers
    /\ did_resolvers' = Append(did_resolvers, did_resolver)
    /\ Forget
    /\ UNCHANGED <<plugins, vc_resolvers, message_consumers,
                   message_subscriptions, matching>>

register_vc_resolver(vc_resolver) ==
    /\ Exclusive
    /\ Len(did_resolvers) + Len(vc_resolvers) < MaxResolvers
    /\ vc_resolvers' = Append(vc_resolvers, vc_resolver)
    /\ Forget
    /\ UNCHANGED <<plugins, did_resolvers, message_consumers,
                   message_subscriptions, matching>>

\* the dispatch that has just returned, as the next one sees it: a set_* that
\* returned Ok is remembered, anything else is not
Previous ==
    IF /\ Resolving /\ call.pc = "returned"
       /\ ResolverFunctions[call.op].fn = "set" /\ result.tag = "Ok"
    THEN [op |-> call.op, target |-> call.target, value |-> call.value,
          tag |-> result.tag]
    ELSE NoPrevious

\* the head of every resolver function: one future per resolver of the
\* registry, in registry order, none of them polled yet
Resolve(op, name, value) ==
    /\ IF ResolverFunctions[op].fn = "get" THEN call.pc # "polling"
       ELSE Exclusive
    /\ call' = [op |-> op, target |-> name, value |-> value, pc |-> "polling"]
    /\ futures' = [i \in Indices(Registry(ResolverFunctions[op].reg)) |->
                     NewFuture(i)]
    /\ cursor' = 1
    /\ completed' = <<>>
    /\ result' = NoResult
    /\ prev' = Previous
    /\ UNCHANGED overlap
    /\ UNCHANGED <<registries, matching>>

check_did(did_name, value) == Resolve("check_did", did_name, value)

check_vc(vc_id, value) == Resolve("check_vc", vc_id, value)

get_did_document(did_name) == Resolve("get_did_document", did_name, "")

get_vc_document(vc_name) == Resolve("get_vc_document", vc_name, "")

set_did_document(did_name, value) == Resolve("set_did_document", did_name, value)

set_vc_document(vc_name, value) == Resolve("set_vc_document", vc_name, value)

PolledResolverMovesToFront(r) ==
    LET reg == ResolverFunctions[call.op].reg
        h == futures[cursor].h
        moved == <<r.h>> \o SelectSeq([i \in Indices(Registry(reg)) |->
                                         [i |-> i, r |-> Registry(reg)[i]]],
                                      LAMBDA e : e.i # h)
        front == [i \in Indices(moved) |-> IF i = 1 THEN moved[i] ELSE moved[i].r]
    IN /\ completed' = IF r.st = "done" THEN Append(completed, cursor)
                       ELSE completed
       /\ did_resolvers' = IF reg = "did" THEN front ELSE did_resolvers
       /\ vc_resolvers' = IF reg = "vc" THEN front ELSE vc_resolvers

\* the resolver at the cursor is polled: the registries after it
PolledResolver(r) ==
    LET reg == ResolverFunctions[call.op].reg
        h == futures[cursor].h
    IN /\ completed' = IF r.st = "done" THEN Append(completed, cursor)
                       ELSE completed
       /\ did_resolvers' = IF reg = "did"
                           THEN [did_resolvers EXCEPT ![h] = r.h]
                           ELSE did_resolvers
       /\ vc_resolvers' = IF reg = "vc"
                          THEN [vc_resolvers EXCEPT ![h] = r.h]
                          ELSE vc_resolvers

\* select_ok(futures).await of check_* and get_*
AwaitSelectOk ==
    /\ call.pc = "polling"
    /\ Resolving
    /\ ResolverFunctions[call.op].fn \in {"get", "check"}
    /\ LET reg == ResolverFunctions[call.op].reg
           fn == ResolverFunctions[call.op].fn
       IN IF futures = <<>>
          THEN /\ Return(Panicked(SelectOkEmpty))
               /\ UNCHANGED <<futures, cursor, completed, did_resolvers,
                              vc_resolvers>>
          ELSE \E r \in PollResolver(Registry(reg)[futures[cursor].h], reg, fn,
                                     call.target, call.value) :
                 /\ PolledResolver(r)
                 /\ LET sel == SelectOk(Polled(r), cursor)
                    IN /\ futures' = IF sel.ready THEN Drop(Polled(r))
                                     ELSE Polled(r)
                       /\ IF sel.ready
                          THEN /\ Return(IF fn = "get"
                                         THEN GetResult(reg, sel.out)
                                         ELSE CheckResult(reg, sel.out))
                               /\ cursor' = cursor
                          ELSE /\ cursor' = sel.cursor
                               /\ UNCHANGED <<call, result>>
    /\ UNCHANGED <<plugins, message_consumers, message_subscriptions, matching,
                   prev, overlap>>

\* try_join_all(futures).await of set_*
AwaitSetters ==
    /\ call.pc = "polling"
    /\ Resolving
    /\ ResolverFunctions[call.op].fn = "set"
    /\ LET reg == ResolverFunctions[call.op].reg
       IN IF futures = <<>>
          THEN /\ Return(SetResult(reg, TryJoinAllEmpty.out))
               /\ UNCHANGED <<futures, cursor, completed, did_resolvers,
                              vc_resolvers>>
          ELSE \E r \in PollResolver(Registry(reg)[futures[cursor].h], reg, "set",
                                     call.target, call.value) :
                 /\ PolledResolver(r)
                 /\ LET join == TryJoinAll(Polled(r), cursor)
                    IN /\ futures' = IF join.ready THEN Drop(Polled(r))
                                     ELSE Polled(r)
                       /\ IF join.ready
                          THEN /\ Return(SetResult(reg, join.out))
                               /\ cursor' = cursor
                          ELSE /\ cursor' = join.cursor
                               /\ UNCHANGED <<call, result>>
    /\ UNCHANGED <<plugins, message_consumers, message_subscriptions, matching,
                   prev, overlap>>

NextResolvers ==
    \/ \E r \in Resolvers : register_did_resolver(r)
    \/ \E r \in Resolvers : register_vc_resolver(r)
    \/ \E n \in CheckNames, v \in Values : check_did(n, v)
    \/ \E n \in CheckNames, v \in Values : check_vc(n, v)
    \/ \E k \in Keys : get_did_document(k)
    \/ \E k \in Keys : get_vc_document(k)
    \/ \E k \in Keys, v \in Values : set_did_document(k, v)
    \/ \E k \in Keys, v \in Values : set_vc_document(k, v)
    \/ AwaitSelectOk
    \/ AwaitSetters

SpecResolvers == Init /\ [][NextResolvers]_vars

-----------------------------------------------------------------------------
(* A RustStorageCache used on its own, as in tests/storage.rs. It is kept   *)
(* in did_resolvers[1]; `prev` remembers the last set.                      *)

StorageKeys == {"example_key", "undefined_key", "other_key"}

\* let mut storage = RustStorageCache::new();
new_storage ==
    /\ did_resolvers = <<>>
    /\ did_resolvers' = <<RustStorageCache([k \in Keys |-> None])>>
    /\ UNCHANGED <<plugins, vc_resolvers, message_consumers,
                   message_subscriptions, matching, call, futures, cursor,
                   completed, result, prev, overlap>>

\* storage.set(key, value).await
set_storage(key, value) ==
    /\ did_resolvers # <<>>
    /\ did_resolvers' = <<set(did_resolvers[1], key, value)>>
    /\ call' = [op |-> "set", target |-> key, value |-> value, pc |-> "returned"]
    /\ result' = [tag |-> "Ok", list |-> <<>>, err |-> <<>>]
    /\ prev' = [op |-> "set", target |-> key, value |-> value, tag |-> "Ok"]
    /\ UNCHANGED <<plugins, vc_resolvers, message_consumers,
                   message_subscriptions, matching, futures, cursor, completed,
                   overlap>>

\* storage.get(key).await
get_storage(key) ==
    /\ did_resolvers # <<>>
    /\ call' = [op |-> "get", target |-> key, value |-> "", pc |-> "returned"]
    /\ result' = LET fetched == get(did_resolvers[1], key)
                 IN IF fetched.tag = "Ok"
                    THEN [tag |-> "Ok", list |-> fetched.val, err |-> <<>>]
                    ELSE [tag |-> "Err", list |-> <<>>, err |-> fetched.val]
    /\ UNCHANGED <<registries, matching, futures, cursor, completed, prev,
                   overlap>>

NextStorage ==
    \/ new_storage
    \/ \E key \in StorageKeys, value \in Values : set_storage(key, value)
    \/ \E key \in StorageKeys : get_storage(key)

SpecStorage == Init /\ [][NextStorage]_vars

-----------------------------------------------------------------------------
(* Message consumers: register_message_consumer and send_message *)

MessageTypes == {"message1", "message2", "message3"}

Datas == {"{}"}

\* the types a consumer is registered with; a Vec, so a type may repeat
TopicLists == {<<>>, <<"message1">>, <<"message1", "message2">>,
               <<"message2", "message2">>}

\* a message text: a JSON object given by its members, or no JSON at all
Object(members) == [object |-> TRUE, members |-> members]

NotJson == [object |-> FALSE, members |-> <<>>]

Messages ==
    {Object(<<<<"type", t>>, <<"data", d>>>>) : t \in MessageTypes, d \in Datas}
    \cup {Object(<<<<"data", d>>, <<"type", t>>>>) : t \in {"message1"}, d \in Datas}
    \cup {Object(<<<<"type", "message1">>>>), Object(<<<<"data", "{}">>>>), NotJson}

Member(message, key) ==
    {message.members[k][2] : k \in {j \in Indices(message.members) :
                                      message.members[j][1] = key}}

\* (mutant) a parser for which data is optional
from_str_data_optional(message) ==
    IF ~message.object THEN Err(<<"expected value">>)
    ELSE IF Member(message, "type") = {} THEN Err(<<"missing field type">>)
    ELSE Ok([type |-> CHOOSE t \in Member(message, "type") : TRUE,
             data |-> IF Member(message, "data") = {} THEN "null"
                      ELSE CHOOSE d \in Member(message, "data") : TRUE])

\* serde_json::from_str::<VadeMessage>: both fields are mandatory
from_str(message) ==
    IF ~message.object THEN Err(<<"expected value">>)
    ELSE IF Member(message, "type") = {} THEN Err(<<"missing field type">>)
    ELSE IF Member(message, "data") = {} THEN Err(<<"missing field data">>)
    ELSE Ok([type |-> CHOOSE t \in Member(message, "type") : TRUE,
             data |-> CHOOSE d \in Member(message, "data") : TRUE])

\* a consumer the tests register, and any other implementer of the trait
TestMessageConsumer == [kind |-> "TestMessageConsumer", message_count |-> 0]

AnyConsumer == [kind |-> "AnyConsumer", message_count |-> 0]

Consumers == {TestMessageConsumer, AnyConsumer}

Reply(type, count, data) == [type |-> type, count |-> count, lastMessage |-> data]

\* one poll of the future of consumer.handle_message(message_type,
\* message_data): the outcome and the consumer after it
handle_message(self, message_type, message_data) ==
    IF self.kind = "TestMessageConsumer"
    THEN {[st |-> "done",
           out |-> Ok(Some(Reply("response", self.message_count + 1,
                                 message_data))),
           h |-> [self EXCEPT !.message_count = @ + 1]]}
    ELSE {[st |-> p.st, out |-> p.out, h |-> self] :
            p \in {Pending, Ready(Ok(None)),
                   Ready(Ok(Some(Reply("reply", 0, message_data)))),
                   Ready(Err(<<"consumer error">>))}}

any_subscribed_to_all(subscriptions, type) == TRUE

any_or_none_given(subscriptions, type) ==
    \/ subscriptions = <<>>
    \/ \E k \in Indices(subscriptions) : subscriptions[k] = type

\* subscriptions.iter().any(|i| i == &parsed.r#type)
any(subscriptions, type) ==
    \E k \in Indices(subscriptions) : subscriptions[k] = type

\* (mutant) a loop that pushes a future for every subscription that is the type
RECURSIVE SubscribedPerTopic(_, _)
SubscribedPerTopic(i, type) ==
    IF i > Len(message_consumers) THEN <<>>
    ELSE [k \in 1..Cardinality({n \in Indices(message_subscriptions[i]) :
                                  message_subscriptions[i][n] = type}) |->
            NewFuture(i)] \o SubscribedPerTopic(i + 1, type)

\* the loop of send_message from consumer i on: a future for every consumer
\* whose subscriptions hold the type
RECURSIVE Subscribed(_, _)
Subscribed(i, type) ==
    IF i > Len(message_consumers) THEN <<>>
    ELSE (IF any(message_subscriptions[i], type) THEN <<NewFuture(i)>>
          ELSE <<>>) \o Subscribed(i + 1, type)

IsSomeReply(response) == response.val # None

SendResultDropsNone(type, joined) ==
    IF joined.tag = "Ok"
    THEN [tag |-> "Ok",
          list |-> [i \in Indices(SelectSeq(joined.val, IsSomeReply)) |->
                      SelectSeq(joined.val, IsSomeReply)[i].val],
          err |-> <<>>]
    ELSE [tag |-> "Err", list |-> <<>>,
          err |-> <<"could not set handle message", type>> \o joined.val]

SendResultKeepsReplies(type, joined) ==
    IF joined.tag = "Ok"
    THEN [tag |-> "Ok", list |-> [i \in Indices(joined.val) |-> joined.val[i].val],
          err |-> <<>>]
    ELSE [tag |-> "Err",
          list |-> [i \in Indices(completed') |-> futures'[completed'[i]].out.val],
          err |-> <<"could not set handle message">> \o joined.val]

\* what send_message returns from the joined futures
SendResult(type, joined) ==
    IF joined.tag = "Ok"
    THEN [tag |-> "Ok", list |-> [i \in Indices(joined.val) |-> joined.val[i].val],
          err |-> <<>>]
    ELSE [tag |-> "Err", list |-> <<>>,
          err |-> <<"could not set handle message", type>> \o joined.val]

\* (mutant) a registration that keeps no entry for an empty list of types
register_message_consumer_skips_empty(types, consumer) ==
    /\ Exclusive
    /\ Len(message_consumers) < MaxConsumers
    /\ message_consumers' = Append(message_consumers, consumer)
    /\ message_subscriptions' = IF types = <<>> THEN message_subscriptions
                                ELSE Append(message_subscriptions, types)
    /\ matching' = Append(matching, 0)
    /\ Forget
    /\ UNCHANGED <<plugins, did_resolvers, vc_resolvers>>

register_message_consumer(types, consumer) ==
    /\ Exclusive
    /\ Len(message_consumers) < MaxConsumers
    /\ message_consumers' = Append(message_consumers, consumer)
    /\ message_subscriptions' = Append(message_subscriptions, types)
    /\ matching' = Append(matching, 0)
    /\ Forget
    /\ UNCHANGED <<plugins, did_resolvers, vc_resolvers>>

\* the sends so far of a type the consumer subscribed to
Matching(type) ==
    [i \in Indices(matching) |->
       IF \E k \in DOMAIN message_subscriptions[i] :
            message_subscriptions[i][k] = type
       THEN matching[i] + 1 ELSE matching[i]]

\* the head of send_message: the text is parsed (the unwrap panics when it is
\* no VadeMessage) and the futures of the subscribed consumers are built
send_message(message) ==
    /\ Exclusive
    /\ LET parsed == from_str(message)
       IN IF parsed.tag = "Err"
          THEN /\ call' = [op |-> "send_message", target |-> "", value |-> "",
                           pc |-> "returned"]
               /\ futures' = <<>>
               /\ result' = [tag |-> "Panic", list |-> <<>>, err |-> parsed.val]
               /\ UNCHANGED matching
          ELSE /\ \A i \in Indices(matching) : Matching(parsed.val.type)[i] <= MaxCount
               /\ call' = [op |-> "send_message", target |-> parsed.val.type,
                           value |-> parsed.val.data, pc |-> "polling"]
               /\ futures' = Subscribed(1, parsed.val.type)
               /\ result' = NoResult
               /\ matching' = Matching(parsed.val.type)
    /\ cursor' = 1
    /\ completed' = <<>>
    /\ UNCHANGED <<registries, prev, overlap>>

\* try_join_all(futures).await of send_message
AwaitConsumers ==
    /\ call.pc = "polling"
    /\ call.op = "send_message"
    /\ IF futures = <<>>
       THEN /\ Return(SendResult(call.target, TryJoinAllEmpty.out))
            /\ UNCHANGED <<futures, cursor, completed, message_consumers>>
       ELSE \E r \in handle_message(message_consumers[futures[cursor].h],
                                    call.target, call.value) :
              /\ completed' = IF r.st = "done" THEN Append(completed, cursor)
                              ELSE completed
              /\ message_consumers' =
                     [message_consumers EXCEPT ![futures[cursor].h] = r.h]
              /\ LET join == TryJoinAll(Polled(r), cursor)
                 IN /\ futures' = IF join.ready THEN Drop(Polled(r))
                                  ELSE Polled(r)
                    /\ IF join.ready
                       THEN /\ Return(SendResult(call.target, join.out))
                            /\ cursor' = cursor
                       ELSE /\ cursor' = join.cursor
                            /\ UNCHANGED <<call, result>>
    /\ UNCHANGED <<plugins, did_resolvers, vc_resolvers, message_subscriptions,
                   matching, prev, overlap>>

NextMessages ==
    \/ \E t \in TopicLists, c \in Consumers : register_message_consumer(t, c)
    \/ \E m \in Messages : send_message(m)
    \/ AwaitConsumers

SpecMessages == Init /\ [][NextMessages]_vars

-----------------------------------------------------------------------------
(* Overlapping get_did_document / get_vc_document: they take &self, so a    *)
(* second one may be created and awaited while the first is in progress     *)

\* the head of a get_* called while the get_* of `call` is in progress
OverlappingGet(op, name) ==
    /\ ResolverFunctions[op].fn = "get"
    /\ call.pc = "polling" /\ Resolving /\ ResolverFunctions[call.op].fn = "get"
    /\ overlap.pc # "polling"
    /\ overlap' = [op |-> op, target |-> name, pc |-> "polling",
                   futures |-> [i \in Indices(Registry(ResolverFunctions[op].reg))
                                  |-> NewFuture(i)],
                   cursor |-> 1, result |-> NoResult]
    /\ UNCHANGED <<registries, matching, call, futures, cursor, completed,
                   result, prev>>

\* select_ok(futures).await of the overlapping get_*
AwaitOverlap ==
    /\ overlap.pc = "polling"
    /\ LET reg == ResolverFunctions[overlap.op].reg
           c == overlap.cursor
       IN IF overlap.futures = <<>>
          THEN overlap' = [overlap EXCEPT !.pc = "returned",
                                          !.result = Panicked(SelectOkEmpty)]
          ELSE \E r \in PollResolver(Registry(reg)[overlap.futures[c].h], reg,
                                     "get", overlap.target, "") :
                 LET fs == [overlap.futures EXCEPT ![c] =
                              [h |-> @.h, st |-> r.st, out |-> r.out]]
                     sel == SelectOk(fs, c)
                 IN overlap' =
                      IF sel.ready
                      THEN [overlap EXCEPT !.futures = Drop(fs),
                                           !.pc = "returned",
                                           !.result = GetResult(reg, sel.out)]
                      ELSE [overlap EXCEPT !.futures = fs,
                                           !.cursor = sel.cursor]
    /\ UNCHANGED <<registries, matching, call, futures, cursor, completed,
                   result, prev>>

NextOverlap ==
    \/ \E r \in {RustStorageCache([k \in Keys |-> Some("example_value")]),
                 AnyResolver} : register_did_resolver(r)
    \/ \E r \in {RustStorageCache([k \in Keys |-> Some("example_value")]),
                 AnyResolver} : register_vc_resolver(r)
    \/ \E op \in DOMAIN ResolverFunctions :
          Resolve(op,
                  IF ResolverFunctions[op].fn = "check" THEN "test"
                  ELSE "example_key",
                  IF ResolverFunctions[op].fn = "get" THEN ""
                  ELSE "example_value")
    \/ \E op \in {"get_did_document", "get_vc_document"} :
          OverlappingGet(op, "example_key")
    \/ AwaitSelectOk
    \/ AwaitSetters
    \/ AwaitOverlap

SpecOverlap == Init /\ [][NextOverlap]_vars

-----------------------------------------------------------------------------
(* One Vade with plugins, resolvers and message consumers *)

Handlers == Len(plugins) + Len(did_resolvers) + Len(vc_resolvers)
              + Len(message_consumers)

\* a registry may grow while the Vade holds fewer than MaxHandlers handlers
Room == Handlers < MaxHandlers

NextVade ==
    \/ Room /\ \E kind \in PluginKinds : register_plugin(kind)
    \/ Room /\ \E r \in {RustStorageCache([k \in Keys |-> None]), AnyResolver} :
                 register_did_resolver(r)
    \/ Room /\ \E r \in {RustStorageCache([k \in Keys |-> None]), AnyResolver} :
                 register_vc_resolver(r)
    \/ Room /\ \E t \in {<<>>, <<"message1", "message2">>}, c \in Consumers :
                 register_message_consumer(t, c)
    \/ \E op \in DOMAIN VadeFunctions : Delegate(op, "did:example")
    \/ \E op \in DOMAIN ResolverFunctions :
          Resolve(op,
                  IF ResolverFunctions[op].fn = "check" THEN "test"
                  ELSE "example_key",
                  IF ResolverFunctions[op].fn = "get" THEN ""
                  ELSE "example_value")
    \/ \E t \in {"message1", "message3"} :
          send_message(Object(<<<<"type", t>>, <<"data", "{}">>>>))
    \/ AwaitPlugins
    \/ AwaitSelectOk
    \/ AwaitSetters
    \/ AwaitConsumers

SpecVade == Init /\ [][NextVade]_vars

\* a step in which the awaited combinator sees a handler complete, or returns
Completing == call'.pc = "returned" \/ Len(completed') > Len(completed)

\* one function of each policy, on a Vade of at most MaxHandlers handlers
NextCompletion ==
    \/ Room /\ \E kind \in PluginKinds : register_plugin(kind)
    \/ Room /\ \E r \in {RustStorageCache([k \in Keys |-> None]), AnyResolver} :
                 register_did_resolver(r)
    \/ Room /\ \E c \in Consumers : register_message_consumer(<<"message1">>, c)
    \/ did_create("did:example")
    \/ check_did("test", "example_value")
    \/ get_did_document("example_key")
    \/ set_did_document("example_key", "example_value")
    \/ send_message(Object(<<<<"type", "message1">>, <<"data", "{}">>>>))
    \/ AwaitPlugins
    \/ AwaitSelectOk
    \/ AwaitSetters
    \/ AwaitConsumers

\* the Vade under an executor that keeps polling the awaited dispatch, with
\* handlers whose calls complete in the end
SpecCompletion ==
    /\ Init /\ [][NextCompletion]_vars
    /\ WF_vars(AwaitPlugins /\ Completing)
    /\ WF_vars(AwaitSelectOk /\ Completing)
    /\ WF_vars(AwaitSetters /\ Completing)
    /\ WF_vars(AwaitConsumers /\ Completing)

-----------------------------------------------------------------------------
(* Collect-all-successes *)

Delegating == call.op \in DOMAIN VadeFunctions

Returned == call.pc = "returned"

Tagged(tag) == {i \in Indices(futures) : futures[i].out.tag = tag}

\* number of Success outcomes at or before index i
Rank(i) == Cardinality({j \in Tagged("Success") : j <= i})

\* C1: a delegating dispatch (did_* / vc_zkp_*) in which no plugin raised an
\* error returns Ok with exactly the values of the plugins that returned
\* Success, in registry order, Ignored and NotImplemented dropped, whatever
\* the order in which the plugin futures completed.
C1_SuccessesInRegistryOrder ==
    (Delegating /\ Returned /\ Tagged("Err") = {}) =>
        /\ result.tag = "Ok"
        /\ Len(result.list) = Cardinality(Tagged("Success"))
        /\ \A i \in Tagged("Success") : result.list[Rank(i)] = futures[i].out.val
        /\ Tagged("Success") \cup Tagged("Ignored") \cup Tagged("NotImplemented")
               = Indices(futures)

\* handlers [A, B, C]: B ignored, A and C succeeded with different values, and
\* C completed first, A last
C1_Witness ==
    /\ Delegating /\ Returned /\ result.tag = "Ok"
    /\ Len(futures) = 3
    /\ futures[2].out.tag = "Ignored"
    /\ futures[1].out.tag = "Success" /\ futures[3].out.tag = "Success"
    /\ futures[1].out.val # futures[3].out.val
    /\ completed = <<3, 2, 1>>
    /\ result.list = <<futures[1].out.val, futures[3].out.val>>

\* C2: when every registered plugin returned NotImplemented, for any number
\* of plugins (none included), the delegating dispatch returns Ok with an
\* empty list and no error.
C2_AllNotImplementedIsEmptyOk ==
    (Delegating /\ Returned /\ Tagged("NotImplemented") = Indices(futures)) =>
        result = [tag |-> "Ok", list |-> <<>>, err |-> <<>>]

C2_Witness ==
    /\ Delegating /\ Returned
    /\ Len(futures) = 3 /\ Len(plugins) = 3
    /\ Tagged("NotImplemented") = Indices(futures)
    /\ plugins[1] = "TestPlugin" /\ plugins[3] = "AnyPlugin"

\* C3: once any plugin of a delegating dispatch has raised an error the
\* dispatch has returned an error, at whatever registry position the plugin
\* is and however many others succeeded, and no value of another plugin is
\* part of what is returned.
C3_AnyErrorFailsDispatch ==
    (Delegating /\ Tagged("Err") # {}) =>
        /\ Returned
        /\ result.tag = "Err"
        /\ result.list = <<>>

\* handlers [A, B, C]: A and C had succeeded when B raised its error
C3_Witness ==
    /\ Delegating /\ Returned /\ result.tag = "Err"
    /\ Len(futures) = 3
    /\ futures[2].out.tag = "Err"
    /\ futures[1].out.tag = "Success" /\ futures[3].out.tag = "Success"

-----------------------------------------------------------------------------
(* Resolver dispatches *)

Fn == ResolverFunctions[call.op].fn

Reg == ResolverFunctions[call.op].reg

\* the resolver that future i of the dispatch borrows
Resolver(i) == Registry(Reg)[futures[i].h]

AllCaches == \A i \in Indices(Registry(Reg)) :
                 Registry(Reg)[i].kind = "RustStorageCache"

GenericError(what) ==
    <<IF Reg = "did" THEN "could not " \o what \o " did document"
      ELSE "could not " \o what \o " vc document">>

\* C4: a get_did_document / get_vc_document over at least one resolver has
\* returned Ok as soon as one resolver succeeded, with the value of a
\* resolver that succeeded, wherever failing and succeeding resolvers stand
\* in the registry; it returns the generic 'could not get ... document' error
\* exactly when every registered resolver failed (so never while a cache of
\* the registry holds the key).
C4_GetReturnsASuccess ==
    (Resolving /\ Fn = "get" /\ futures # <<>>) =>
        /\ Tagged("Ok") # {} =>
              /\ Returned /\ result.tag = "Ok"
              /\ \E i \in Tagged("Ok") : result.list = futures[i].out.val
        /\ Returned =>
              /\ result.tag \in {"Ok", "Err"}
              /\ result.tag = "Ok" <=> Tagged("Ok") # {}
              /\ result.tag = "Err" <=> Tagged("Err") = Indices(futures)
              /\ result.tag = "Err" =>
                    /\ result.err = GenericError("get")
                    /\ Len(futures) = Len(Registry(Reg))
                    /\ \A i \in Indices(futures) :
                          Resolver(i).kind = "RustStorageCache" =>
                              Resolver(i).storage[call.target] = None

\* the first resolver failed, the second succeeded and its value is returned
C4_Witness ==
    /\ Resolving /\ Fn = "get" /\ Returned
    /\ Len(futures) = 2
    /\ futures[1].out.tag = "Err" /\ futures[2].out.tag = "Ok"
    /\ Resolver(1).kind = "RustStorageCache"
    /\ Resolver(2).kind = "RustStorageCache"
    /\ result.tag = "Ok" /\ result.list = Resolver(2).storage[call.target]

\* C5: a set_did_document / set_vc_document over any number of resolvers
\* (none included) returns Ok(()) if and only if the set call of every
\* registered resolver succeeded; once the set call of one resolver failed,
\* at whatever position, the dispatch has returned the generic 'could not set
\* ... document' error and nothing else.
C5_SetAllOrNothing ==
    (Resolving /\ Fn = "set") =>
        /\ Tagged("Err") # {} =>
              /\ Returned
              /\ result = [tag |-> "Err", list |-> <<>>,
                           err |-> GenericError("set")]
        /\ Returned =>
              /\ result.tag \in {"Ok", "Err"}
              /\ Len(futures) = Len(Registry(Reg))
              /\ result.tag = "Ok" <=> Tagged("Ok") = Indices(futures)

\* two resolvers: the first succeeded, the second failed, the dispatch failed
C5_Witness ==
    /\ Resolving /\ Fn = "set" /\ Returned
    /\ Len(futures) = 2
    /\ futures[1].out.tag = "Ok" /\ futures[2].out.tag = "Err"
    /\ result.tag = "Err"

\* C6: when a set_* dispatch has failed, every cache whose set call of this
\* dispatch completed still holds the value written: nothing is rolled back,
\* and the resolvers of one registry may hold different values afterwards.
C6_NoRollback ==
    (Resolving /\ Fn = "set" /\ Returned /\ result.tag = "Err") =>
        \A i \in Tagged("Ok") :
            Resolver(i).kind = "RustStorageCache" =>
                Resolver(i).storage[call.target] = Some(call.value)

\* [cache, failing resolver, cache]: the first cache holds the new value, the
\* third was never reached and does not
C6_Witness ==
    /\ Resolving /\ Fn = "set" /\ Returned /\ result.tag = "Err"
    /\ Len(futures) = 3
    /\ futures[1].out.tag = "Ok" /\ futures[2].out.tag = "Err"
    /\ Resolver(1).kind = "RustStorageCache"
    /\ Resolver(3).kind = "RustStorageCache"
    /\ Resolver(1).storage[call.target] = Some(call.value)
    /\ Resolver(3).storage[call.target] # Some(call.value)

\* C7: a check_did / check_vc over at least one resolver returns Ok(()) if
\* and only if the check of at least one resolver succeeded and a 'document
\* not valid' error when every resolver failed; when all resolvers are
\* RustStorageCaches the name "test" is accepted and every other name is
\* rejected, whatever the value given and whatever the caches hold.
C7_AnyConfirms ==
    (Resolving /\ Fn = "check" /\ Returned /\ futures # <<>>) =>
        /\ result.tag \in {"Ok", "Err"}
        /\ result.tag = "Ok" <=> Tagged("Ok") # {}
        /\ result.tag = "Err" <=> Tagged("Err") = Indices(futures)
        /\ result.tag = "Err" =>
              result.err[1] = IF Reg = "did" THEN "did document not valid"
                              ELSE "vc document not valid"
        /\ AllCaches => (result.tag = "Ok" <=> call.target = "test")

\* two caches, one of them holding the very value that is checked, reject the
\* name "unknown"
C7_Witness ==
    /\ Resolving /\ Fn = "check" /\ Returned
    /\ Len(futures) = 2 /\ AllCaches
    /\ \E k \in Keys : Resolver(1).storage[k] = Some(call.value)
    /\ call.target = "unknown"
    /\ result.tag = "Err"

\* C8: with one or more resolvers, all of them RustStorageCaches, a set_*
\* that returned Ok leaves every registered resolver holding the value under
\* the key, and the get_* of that key that follows it returns exactly that
\* value (the value of the latest such set).
C8_SetGetRoundTrip ==
    /\ (Resolving /\ Fn = "set" /\ Returned /\ result.tag = "Ok" /\ AllCaches) =>
          \A i \in Indices(Registry(Reg)) :
              Registry(Reg)[i].storage[call.target] = Some(call.value)
    /\ (/\ Resolving /\ Fn = "get" /\ Returned /\ AllCaches
        /\ Registry(Reg) # <<>>
        /\ prev.tag = "Ok"
        /\ ResolverFunctions[prev.op].reg = Reg
        /\ prev.target = call.target) =>
          result = [tag |-> "Ok", list |-> Some(prev.value), err |-> <<>>]

\* a get over two caches, right after a set of the key that returned Ok
C8_Witness ==
    /\ Resolving /\ Fn = "get" /\ Returned /\ AllCaches
    /\ Len(Registry(Reg)) = 2
    /\ prev.tag = "Ok" /\ ResolverFunctions[prev.op].reg = Reg
    /\ prev.target = call.target
    /\ result.list = Some(prev.value)
    /\ \A i \in Indices(Registry(Reg)) :
          Registry(Reg)[i].storage[call.target] = Some(prev.value)

-----------------------------------------------------------------------------
(* Message routing *)

\* a send_message whose text was parsed
Sending == call.op = "send_message" /\ result.tag # "Panic"

Topics(i) == {message_subscriptions[i][k] : k \in DOMAIN message_subscriptions[i]}

Selected(i) == \E j \in Indices(futures) : futures[j].h = i

C10_CounterCountsMatchingSends ==
    Sending /\ Returned =>
      /\ \A i \in Indices(message_consumers) :
           message_consumers[i].kind = "TestMessageConsumer" =>
             message_consumers[i].message_count = matching[i]
      /\ (\A i \in Indices(message_consumers) : call.target \notin Topics(i)) =>
           result.tag = "Ok" /\ result.list = <<>>

\* the replies of the selected consumers, in registry order
Replies == [j \in Indices(futures) |-> futures[j].out.val]

IsReply(reply) == reply # None

NoHardError == \A j \in Indices(futures) : futures[j].out.tag # "Err"

\* C11 as claimed: when no selected consumer raises a hard error, send_message
\* returns the non-empty replies only, in registry order; a consumer that
\* returns no reply contributes no entry.
C11_NoReplyIsDropped ==
    Sending /\ Returned /\ NoHardError =>
      /\ result.tag = "Ok"
      /\ result.list = SelectSeq(Replies, IsReply)

\* C11 as amended: when no selected consumer raises a hard error, send_message
\* returns one entry per selected consumer, in registry order; the entry of a
\* consumer that returns no reply is None.
C11_OneEntryPerSelectedConsumer ==
    Sending /\ Returned /\ NoHardError =>
      /\ result.tag = "Ok"
      /\ result.list = Replies

\* a send returned the reply of the second consumer behind the None of the first
C11_Witness ==
    /\ Sending /\ Returned /\ result.tag = "Ok"
    /\ Len(futures) = 2
    /\ result.list[1] = None
    /\ result.list[2] # None

HardErrors == {j \in Indices(futures) : futures[j].out.tag = "Err"}

\* C12: when a consumer selected for a message raises a hard error, send_message
\* fails as a whole with an error that names the type of the message and carries
\* the consumer's error, no reply of another consumer is returned, and a failed
\* send always has the hard error of a consumer subscribed to the type.
C12_HardErrorFailsSend ==
    Sending /\ Returned =>
      /\ HardErrors # {} =>
           /\ result.tag = "Err"
           /\ result.list = <<>>
           /\ \E j \in HardErrors :
                result.err = <<"could not set handle message", call.target>>
                               \o futures[j].out.val
      /\ result.tag = "Err" =>
           /\ HardErrors # {}
           /\ \A j \in HardErrors : call.target \in Topics(futures[j].h)

\* a send failed on its second consumer after the first one had replied
C12_Witness ==
    /\ Sending /\ Returned /\ result.tag = "Err"
    /\ Len(futures) = 2
    /\ futures[1].out.tag = "Ok" /\ futures[1].out.val # None
    /\ futures[2].out.tag = "Err"

\* C13: a consumer registered with an empty list of types is selected by no
\* send_message, is never polled and keeps the state it was registered with.
C13_NoTypesNoMessages ==
    \A i \in Indices(message_consumers) :
       message_subscriptions[i] = <<>> =>
         /\ ~Selected(i)
         /\ matching[i] = 0
         /\ message_consumers[i] \in Consumers

\* two sends returned to the second consumer while the first one, registered
\* with no types, was left alone
C13_Witness ==
    /\ Sending /\ Returned /\ result.tag = "Ok"
    /\ Len(message_consumers) = 2
    /\ message_subscriptions[1] = <<>>
    /\ message_consumers[1] = TestMessageConsumer
    /\ message_consumers[2].kind = "TestMessageConsumer"
    /\ message_consumers[2].message_count = 2

-----------------------------------------------------------------------------
(* Registries *)

\* the registry grew by one handler at its tail, the others kept their places
Grew(registry, registry_after) ==
    /\ Len(registry_after) = Len(registry) + 1
    /\ \A i \in Indices(registry) : registry_after[i] = registry[i]

\* a step of a registration: the only steps that leave no dispatch on record
Registering == call'.pc = "idle"

Members(registry) == [i \in Indices(registry) |-> registry[i].kind]

\* C15: no step of a dispatch, whether the dispatch succeeds or fails, changes
\* which handlers a registry holds, its length or its order, or the
\* subscriptions; only the internal state of handlers changes.
C15_DispatchKeepsRegistries ==
    [][~Registering =>
         /\ plugins' = plugins
         /\ Members(did_resolvers') = Members(did_resolvers)
         /\ Members(vc_resolvers') = Members(vc_resolvers)
         /\ Members(message_consumers') = Members(message_consumers)
         /\ message_subscriptions' = message_subscriptions]_vars

\* a set_did_document failed on the second resolver after the first one, a
\* cache, had stored the value
C15_Witness ==
    /\ call.op = "set_did_document" /\ Returned /\ result.tag = "Err"
    /\ Members(did_resolvers) = <<"RustStorageCache", "AnyResolver">>
    /\ did_resolvers[1].storage["example_key"] = Some("example_value")

-----------------------------------------------------------------------------
(* What a dispatch has started and finished when it returns *)

NeverStarted == {j \in Indices(futures) : futures[j].st = "dropped unstarted"}

Cancelled == {j \in Indices(futures) : futures[j].st = "dropped pending"}

Finished == {j \in Indices(futures) : futures[j].st = "done"}

\* C16: when a dispatch returns, with a result or with an error, it has one
\* future for every handler of its registry (for every subscribed consumer in
\* send_message), no handler twice, and each of them has been started.
C16_EachHandlerStartedOnce ==
    Returned /\ result.tag # "Panic" =>
      /\ Delegating => Len(futures) = Len(plugins)
      /\ Resolving => Len(futures) = Len(Registry(Reg))
      /\ Sending =>
           \A i \in Indices(message_consumers) :
              call.target \in Topics(i) => Selected(i)
      /\ \A j, k \in Indices(futures) : futures[j].h = futures[k].h => j = k
      /\ NeverStarted = {}

\* C17: when a delegating function returns its Ok list there is one future per
\* registered plugin, and each has been polled to completion: none is unstarted,
\* pending or dropped.
C17_OkListAfterAllCompleted ==
    Delegating /\ Returned /\ result.tag = "Ok" =>
      /\ Len(futures) = Len(plugins)
      /\ Finished = Indices(futures)
      /\ Len(completed) = Len(plugins)

\* an Ok list of three plugins of which the first completed last
C17_Witness ==
    /\ Delegating /\ Returned /\ result.tag = "Ok"
    /\ Len(plugins) = 3
    /\ completed = <<2, 3, 1>>
    /\ Len(result.list) >= 1

\* a get_did_document / get_vc_document that returned the value of a resolver
RaceWon == Resolving /\ Fn = "get" /\ Returned /\ result.tag = "Ok"

\* C18: when get_did_document / get_vc_document returns a value, the get of
\* every registered resolver has been started in that dispatch, also of the
\* resolvers behind the one whose value is returned.
C18_RaceStartsEveryResolver ==
    RaceWon =>
      /\ Len(futures) = Len(Registry(Reg))
      /\ NeverStarted = {}

\* C19 as claimed: when get_did_document / get_vc_document has returned its
\* value, no get that was started and still pending is cancelled or dropped.
C19_LosersRunToCompletion ==
    RaceWon => Cancelled = {}

\* C19 as amended: when get_did_document / get_vc_document returns its value,
\* every other get that has not completed by then is dropped: it holds no
\* outcome, and the only Ok among the futures is the value returned.
C19_LosersAreDropped ==
    RaceWon =>
      /\ Finished \cup Cancelled \cup NeverStarted = Indices(futures)
      /\ \A j \in Cancelled \cup NeverStarted : futures[j].out = NoOutcome
      /\ \A j \in Finished :
           futures[j].out.tag = "Ok" => result.list = futures[j].out.val
      /\ Cardinality({j \in Finished : futures[j].out.tag = "Ok"}) = 1

\* a get returned the entry of the second resolver, a cache, while the get of
\* the first resolver was pending and that of the third had not been started
C19_Witness ==
    /\ RaceWon
    /\ Len(futures) = 3
    /\ Cancelled = {1} /\ Finished = {2} /\ NeverStarted = {3}
    /\ Resolver(2).kind = "RustStorageCache"

\* C20: when set_did_document / set_vc_document returns, with several resolvers
\* registered, the set of every resolver has completed, also when one failed:
\* none is unstarted, pending or dropped.
C20_SetAwaitsAllResolvers ==
    Resolving /\ Fn = "set" /\ Returned /\ Len(Registry(Reg)) > 1 =>
      Finished = Indices(futures)

-----------------------------------------------------------------------------
(* Scheduling of the handler futures *)

\* the futures that have been polled at least once
Started == {j \in Indices(futures) :
              futures[j].st \notin {"unstarted", "dropped unstarted"}}

\* C21 as claimed: while a dispatch is in progress no handler's call has
\* completed while the call of another handler of that dispatch has not been
\* started.
C21_AllInFlightBeforeAnyCompletes ==
    call.pc = "polling" /\ Finished # {} => Started = Indices(futures)

\* C21 as amended: the futures of all N handlers are created before any of them
\* is polled and are first polled in ascending registry order, so a call may
\* complete while calls at higher indices have not been started, but never
\* while a call at a lower index has not been started.
C21_CreatedThenPolledInOrder ==
    /\ Resolving => Len(futures) = Len(Registry(Reg))
    /\ \A j \in Started : \A i \in 1..j : i \in Started
    /\ call.pc = "polling" => cursor \in Indices(futures) \/ futures = <<>>

\* the first of three resolvers has completed its call while the other two
\* have not been polled
C21_Witness ==
    /\ Resolving /\ call.pc = "polling"
    /\ Len(futures) = 3
    /\ Finished = {1} /\ Started = {1}

-----------------------------------------------------------------------------
(* Aggregate errors *)

\* the fixed text of the aggregate error of a resolver function
AggregateError ==
    CASE Fn = "check" -> <<IF Reg = "did" THEN "did document not valid"
                           ELSE "vc document not valid">>
      [] Fn = "get" -> GenericError("get")
      [] Fn = "set" -> GenericError("set")

\* C22: the error of a failed get_*, set_* or check_* is the fixed text of the
\* function alone: it holds no detail of a resolver's error and is the same
\* whatever errors the resolvers raised.
C22_AggregateErrorIsGeneric ==
    Resolving /\ Returned /\ result.tag = "Err" => result.err = AggregateError

-----------------------------------------------------------------------------
(* Ties in a race *)

\* the resolvers whose get is ready with a value whenever it is polled: the
\* caches that hold the key
HoldingCaches ==
    {i \in Indices(futures) :
       /\ Resolver(i).kind = "RustStorageCache"
       /\ get(Resolver(i), call.target).tag = "Ok"}

\* C23: the value get_did_document / get_vc_document returns is that of the
\* lowest-indexed resolver that was ready with a value: every resolver before
\* it has been polled and has failed or was not ready, and no cache holding
\* the key stands before it, also when resolvers before it failed.
C23_LowestReadyIndexWins ==
    RaceWon =>
      \E w \in Finished :
         /\ futures[w].out.tag = "Ok"
         /\ result.list = futures[w].out.val
         /\ \A i \in 1..(w - 1) :
              /\ i \in Started
              /\ futures[i].out.tag # "Ok"
         /\ \A i \in HoldingCaches : w <= i

\* behind a resolver that failed, two caches hold different values under the
\* key, and the get returned the value of the first of them
C23_Witness ==
    /\ RaceWon
    /\ Len(futures) = 3
    /\ futures[1].out.tag = "Err"
    /\ HoldingCaches = {2, 3}
    /\ Resolver(2).storage[call.target] # Resolver(3).storage[call.target]
    /\ result.list = Resolver(2).storage[call.target]

-----------------------------------------------------------------------------
(* Calls in progress on one handler *)

\* the handlers on which a call of these futures is in progress
InProgress(fs) == {fs[j].h : j \in {i \in Indices(fs) : fs[i].st = "pending"}}

TwoDispatches == call.pc = "polling" /\ overlap.pc = "polling"

\* C24 as claimed: at no time are two calls in progress on the same handler,
\* also when get_did_document / get_vc_document dispatches overlap.
C24_OneCallPerHandler ==
    TwoDispatches /\ ResolverFunctions[overlap.op].reg = Reg =>
      InProgress(futures) \cap InProgress(overlap.futures) = {}

\* C24 as amended: a dispatch holds one call per handler, and two dispatches
\* are in progress on one Vade only when both are get_did_document /
\* get_vc_document; the functions taking exclusive access overlap with
\* nothing, so only overlapping gets have two calls in progress on the same
\* resolver.
C24_OnlyGetsOverlap ==
    /\ \A j, k \in Indices(futures) : futures[j].h = futures[k].h => j = k
    /\ \A j, k \in Indices(overlap.futures) :
         overlap.futures[j].h = overlap.futures[k].h => j = k
    /\ TwoDispatches =>
         /\ Resolving /\ Fn = "get"
         /\ ResolverFunctions[overlap.op].fn = "get"

\* two get_did_document are in progress and the call of each on the first
\* resolver is pending
C24_Witness ==
    /\ TwoDispatches
    /\ call.op = "get_did_document" /\ overlap.op = "get_did_document"
    /\ 1 \in InProgress(futures) \cap InProgress(overlap.futures)

-----------------------------------------------------------------------------
(* What the caller can tell apart *)

\* C25: a delegating dispatch in which every plugin returned NotImplemented or
\* Ignored, in any mix, returns the same Ok with an empty list: the result
\* does not tell which of the two each plugin returned.
C25_IgnoredLikeNotImplemented ==
    /\ Delegating /\ Returned
    /\ Tagged("NotImplemented") \cup Tagged("Ignored") = Indices(futures)
    => result = [tag |-> "Ok", list |-> <<>>, err |-> <<>>]

\* did_resolve, which TestPlugin ignores, over plugins of which the second
\* does not implement it
C25_Witness ==
    /\ Delegating /\ Returned /\ call.op = "did_resolve"
    /\ plugins = <<"TestPlugin", "AnyPlugin", "TestPlugin">>
    /\ Tagged("Ignored") = {1, 3}
    /\ Tagged("NotImplemented") = {2}

\* C26: what a dispatch returns is decided by the handlers, their order and the
\* calls made so far, whatever the completion order of the handlers was: the
\* reply a TestMessageConsumer gives to a send that returns Ok carries the
\* number of sends so far of a type it subscribed to.
C26_ResultDecidedByTheCalls ==
    Sending /\ Returned /\ result.tag = "Ok" =>
      \A j \in Indices(futures) :
         message_consumers[futures[j].h].kind = "TestMessageConsumer" =>
           result.list[j] = Some(Reply("response", matching[futures[j].h],
                                       call.value))

-----------------------------------------------------------------------------
(* The VadePlugin trait *)

Called == call.pc \in {"returned", "unwrapped"}

\* what TestPlugin implements itself
Overridden == {"did_create", "did_resolve", "did_update"}

\* C27: a function of the VadePlugin trait that a plugin does not override
\* answers Ok(NotImplemented) whatever the argument, and calling a plugin
\* leaves the plugin as it was.
C27_DefaultIsNotImplemented ==
    /\ [](Called /\ plugins = <<"TestPlugin">> /\ call.op \notin Overridden
            => futures[1].out = NotImplemented)
    /\ [][call.pc = "polling" => plugins' = plugins]_vars

\* the fallback of tests/vade_plugin.rs and the custom function
C27_Witness ==
    /\ Called /\ plugins = <<"TestPlugin">>
    /\ call.op = "run_custom_function"
    /\ futures[1].out = NotImplemented

\* C28: every function of the VadePlugin trait that is called on a plugin has
\* a function of the same name in Vade that delegates to the plugins.
C28_EveryPluginFunctionHasACounterpart ==
    call.op \in VadePluginFunctions => call.op \in DOMAIN VadeFunctions

\* C30: unwrap of Success(v) returns v; unwrap of NotImplemented and of
\* Ignored panics and returns nothing.
C30_UnwrapSuccessOrPanic ==
    call.pc = "unwrapped" =>
      LET response == futures[1].out
      IN /\ response.tag = "Success" =>
              result = [tag |-> "Ok", list |-> <<response.val>>, err |-> <<>>]
         /\ response.tag \in {"NotImplemented", "Ignored"} =>
              result.tag = "Panic" /\ result.list = <<>>

C30_Witness ==
    /\ call.pc = "unwrapped"
    /\ futures[1].out = Ignored
    /\ result.tag = "Panic"

-----------------------------------------------------------------------------
(* The two resolver registries *)

\* the registry a resolver function is documented to work on
Own(op) ==
    IF op \in {"check_did", "get_did_document", "set_did_document"}
    THEN did_resolvers ELSE vc_resolvers

OnlyCaches(registry) ==
    \A i \in Indices(registry) : registry[i].kind = "RustStorageCache"

Other(op) ==
    IF op \in {"check_did", "get_did_document", "set_did_document"}
    THEN vc_resolvers ELSE did_resolvers

\* C29: a DID function calls the DID resolvers and only them, a VC function
\* the VC resolvers and only them: the dispatch has one future per resolver
\* of its own registry, a get answers with a value one of them could give, and
\* no step of the dispatch changes a resolver of the other registry.
C29_RegistriesAreIndependent ==
    /\ [](Resolving /\ call.pc # "idle" =>
            /\ Len(futures) = Len(Own(call.op))
            /\ (/\ Returned /\ ResolverFunctions[call.op].fn = "get"
                /\ result.tag = "Ok" /\ OnlyCaches(Own(call.op))
                => \E i \in Indices(Own(call.op)) :
                      Own(call.op)[i].storage[call.target] = result.list))
    /\ [][Resolving /\ call.pc = "polling" => Other(call.op)' = Other(call.op)]_vars

\* a set_did_document that stored the value in the DID cache while the VC
\* cache registered next to it holds nothing
C29_Witness ==
    /\ Returned /\ call.op = "set_did_document" /\ result.tag = "Ok"
    /\ Len(did_resolvers) = 1 /\ Len(vc_resolvers) = 1
    /\ OnlyCaches(did_resolvers) /\ OnlyCaches(vc_resolvers)
    /\ did_resolvers[1].storage[call.target] = Some(call.value)
    /\ \A k \in Keys : vc_resolvers[1].storage[k] = None

-----------------------------------------------------------------------------
(* RustStorageCache as a map *)

\* what the cache holds for a key: None when there is no entry
Entry(self, key) ==
    IF key \in DOMAIN self.storage THEN self.storage[key] ELSE None

\* C31: the cache is a last-write-wins map: a get returns the value last set
\* for its key and the error "no entry for" the key when it was never set; a
\* set returns Ok, stores its value under its key and leaves every other key
\* as it was; a get changes nothing.
C31_LastWriteWins ==
    /\ [](call.op = "get" /\ Returned =>
            /\ Entry(did_resolvers[1], call.target) = None =>
                  result = [tag |-> "Err", list |-> <<>>,
                            err |-> <<"no entry for", call.target>>]
            /\ Entry(did_resolvers[1], call.target) # None =>
                  result = [tag |-> "Ok", err |-> <<>>,
                            list |-> Entry(did_resolvers[1], call.target)]
            /\ prev.target = call.target => result.list = Some(prev.value))
    /\ [](call.op = "set" /\ Returned => result.tag = "Ok")
    /\ [][did_resolvers # <<>> =>
            \A k \in StorageKeys :
               Entry(did_resolvers'[1], k) =
                 IF call'.op = "set" /\ call'.target = k
                 THEN Some(call'.value)
                 ELSE Entry(did_resolvers[1], k)]_vars

\* a key set twice with different values, and then read
C31_Witness ==
    /\ call.op = "get" /\ Returned /\ call.target = "example_key"
    /\ prev.target = "example_key" /\ prev.value = "other_value"
    /\ result.list = Some("other_value")
    /\ Entry(did_resolvers[1], "undefined_key") = None
    /\ Entry(did_resolvers[1], "other_key") = Some("example_value")

-----------------------------------------------------------------------------
(* Errors of the delegating functions *)

\* C32: the error of a failed delegating dispatch is the text of the function
\* called, the target given in this call and the error one of the plugins
\* raised in this dispatch.
C32_ErrorNamesItsOwnDispatch ==
    Delegating /\ Returned /\ result.tag = "Err" =>
      \E j \in Tagged("Err") :
         result.err = <<VadeFunctions[call.op], call.target>> \o futures[j].out.val

\* did_update on did:example:123, failed by TestPlugin behind a plugin that
\* succeeded
C32_Witness ==
    /\ Delegating /\ Returned /\ result.tag = "Err"
    /\ call.op = "did_update" /\ call.target = "did:example:123"
    /\ plugins = <<"AnyPlugin", "TestPlugin">>
    /\ futures[1].out.tag = "Success"
    /\ result.err = <<"could not update did", "did:example:123", "yikes">>

\* C33: a delegating dispatch returns its error in the step in which a plugin
\* completes with an error: the plugins that were pending at that point are
\* not waited for (their futures are dropped as they are), and nothing of a
\* returned dispatch is still pending.
C33_FailFast ==
    /\ [][Delegating /\ call.pc = "polling" /\ Tagged("Err")' # {} =>
            /\ call'.pc = "returned"
            /\ result'.tag = "Err"
            /\ \A j \in Indices(futures) :
                  futures[j].st = "pending" /\ j # cursor =>
                     futures'[j].st = "dropped pending"]_vars
    /\ [](Delegating /\ Returned =>
            \A j \in Indices(futures) : futures[j].st # "pending")

\* the first plugin was pending when the second raised its error
C33_Witness ==
    /\ Delegating /\ Returned /\ result.tag = "Err"
    /\ Len(futures) = 2
    /\ futures[1].st = "dropped pending"
    /\ futures[2].out.tag = "Err"

-----------------------------------------------------------------------------
(* Completion of a dispatch *)

Racing == Resolving /\ ResolverFunctions[call.op].fn \in {"get", "check"}

Joining ==
    \/ Delegating
    \/ Sending
    \/ Resolving /\ ResolverFunctions[call.op].fn = "set"

C35_EmptyRegistryIsAnError ==
    Racing /\ Returned /\ Own(call.op) = <<>> =>
      /\ result.tag = "Err"
      /\ result.err[1] \in {"could not get did document",
                            "could not get vc document",
                            "did document not valid", "vc document not valid"}

-----------------------------------------------------------------------------
(* Success without an artifact *)

\* C36: a plugin that returned Success(None) has the entry None at its place
\* in the result: the result has as many entries as plugins returned Success.
C36_SuccessNoneIsAnEntry ==
    Delegating /\ Returned /\ result.tag = "Ok" =>
      /\ Len(result.list) = Cardinality(Tagged("Success"))
      /\ \A j \in Tagged("Success") :
            futures[j].out.val = None => result.list[Rank(j)] = None

\* Success(None) between a plugin that answered with an artifact and one that
\* did not implement the function
C36_Witness ==
    /\ Delegating /\ Returned /\ result.tag = "Ok"
    /\ Len(futures) = 3
    /\ futures[1].out = Success(Some("artifact"))
    /\ futures[2].out = Success(None)
    /\ futures[3].out = NotImplemented
    /\ result.list = <<Some("artifact"), None>>

-----------------------------------------------------------------------------
(* The subscriptions of the message consumers *)

\* C37: message_consumers and message_subscriptions have the same length, so
\* send_message finds the subscriptions of every consumer; an entry is a list
\* of types as it was given, and no step changes or removes the entry of a
\* consumer registered before.
C37_SubscriptionsParallelAndFixed ==
    /\ [](/\ Len(message_subscriptions) = Len(message_consumers)
          /\ \A i \in Indices(message_subscriptions) :
                message_subscriptions[i] \in TopicLists)
    /\ [][/\ Len(message_subscriptions') >= Len(message_subscriptions)
          /\ \A i \in Indices(message_subscriptions) :
                message_subscriptions'[i] = message_subscriptions[i]]_vars

\* a send returned while one consumer is registered with no type and the
\* other with the same type twice
C37_Witness ==
    /\ Sending /\ Returned /\ result.tag = "Ok"
    /\ Len(message_consumers) = 2
    /\ message_subscriptions = <<<<>>, <<"message2", "message2">>>>
    /\ Len(futures) = 1 /\ futures[1].h = 2

\* how often a type stands in the subscriptions of consumer i
Times(i, type) ==
    Cardinality({n \in Indices(message_subscriptions[i]) :
                   message_subscriptions[i][n] = type})

FuturesOf(i) == {j \in Indices(futures) : futures[j].h = i}

-----------------------------------------------------------------------------
(* Messages that are no VadeMessage *)

\* a text that is a JSON object with a type and a data member
Envelope(message) ==
    /\ message.object
    /\ Member(message, "type") # {}
    /\ Member(message, "data") # {}

Aborted == call.op = "send_message" /\ result.tag = "Panic"

\* C39: a message that is no JSON, or lacks type or data, does not parse, and
\* the send_message that fails to parse it aborts: it has built no future,
\* returns no list, and its step leaves every consumer and every count of
\* matching sends as they were.
C39_InvalidMessageAborts ==
    /\ [](/\ \A m \in Messages : ~Envelope(m) <=> from_str(m).tag = "Err"
          /\ Aborted => futures = <<>> /\ result.list = <<>>
                        /\ call.pc = "returned")
    /\ [][Aborted' => /\ message_consumers' = message_consumers
                      /\ message_subscriptions' = message_subscriptions
                      /\ matching' = matching]_vars

\* the abort on a Vade whose TestMessageConsumer has handled a message before
C39_Witness ==
    /\ Aborted
    /\ result.err = <<"missing field data">>
    /\ Len(message_consumers) = 1
    /\ message_consumers[1].kind = "TestMessageConsumer"
    /\ message_consumers[1].message_count = 1
    /\ matching = <<1>>

-----------------------------------------------------------------------------
(* Which error decides *)

\* the registry the futures of a joining dispatch borrow from
Borrowed ==
    IF Delegating THEN plugins
    ELSE IF Sending THEN message_consumers
    ELSE Own(call.op)

\* the error of a handler as the dispatch reports it; a set_* reports none
Reported(e) ==
    IF Delegating THEN result.err = <<VadeFunctions[call.op], call.target>> \o e
    ELSE IF Sending
    THEN result.err = <<"could not set handle message", call.target>> \o e
    ELSE Len(result.err) = 1

====
